---- MODULE Spec2Model ----
(***************************************************************************)
(* Model of the order book of stock_trading_engine.cpp: the sorted linked  *)
(* list PriorityQueue, and OrderBook::add_order / OrderBook::match_order   *)
(* run by concurrent simulate_market_activity threads.                     *)
(***************************************************************************)
EXTENDS Integers, Sequences, FiniteSets

(* ------------------------------ bounds --------------------------------- *)
\* number of simulate_market_activity threads that are modelled
NumThreads == 2
\* cap on the number of add_order calls in one behaviour (order_id_counter)
MaxOrders == 3
\* quantities drawn by the generator are 1..MaxQty
MaxQty == 2
\* prices drawn by the generator are 1..MaxPrice
MaxPrice == 2
\* order_id_counter is an atomic int that wraps around; the model wraps it at IdSpace
IdSpace == 4

(* ------------------------- program constants --------------------------- *)
max_tickers == 1024

Threads == 1..NumThreads
\* 5 and 1029 share the slot 5 (1029 % 1024 = 5); 6 has a slot of its own
Tickers == {5, 6, 1029}
Slot(ticker) == ticker % max_tickers
Slots == {Slot(t) : t \in Tickers}

NoOrder == [order_type |-> "None", ticker |-> 0, quantity |-> 0, price |-> 0, order_id |-> -1]

\* Order::Order
Order(type, tick, qty, prc, id) ==
    [order_type |-> type, ticker |-> tick, quantity |-> qty, price |-> prc, order_id |-> id]

Call(type, tick, qty, prc) ==
    [order_type |-> type, ticker |-> tick, quantity |-> qty, price |-> prc]

\* the argument tuples simulate_market_activity may draw, for one ticker
RandomCalls ==
    {Call(ty, 5, q, p) : ty \in {"Buy", "Sell"}, q \in 1..MaxQty, p \in 1..MaxPrice}

\* argument tuples over tickers that share a slot (5, 1029) and one that does not (6)
MultiTickerCalls ==
    {Call(ty, tk, 1, 1) : ty \in {"Buy", "Sell"}, tk \in Tickers}

\* the two submission scenarios of the specification's testable properties
ScenarioCalls ==
    {Call("Buy", 5, 10, 100), Call("Sell", 5, 10, 90),
     Call("Buy", 5, 5, 50), Call("Buy", 5, 10, 60), Call("Sell", 5, 12, 55)}

\* argument tuples with a quantity or a price that is not positive
InvalidCalls ==
    {Call(ty, 5, q, p) : ty \in {"Buy", "Sell"}, q \in {-1, 0, 1}, p \in {0, 1}}

\* four calls of RandomCalls (for MaxQty = MaxPrice = 2) that are made in a race
RaceCalls ==
    {Call("Buy", 5, 1, 1), Call("Buy", 5, 1, 2), Call("Sell", 5, 2, 1), Call("Buy", 5, 2, 2)}

\* one buy and one sell that cross, for callers that submit without end
EndlessCalls == {Call("Buy", 5, 1, 1), Call("Sell", 5, 1, 1)}

VARIABLES
    buy_orders,        \* slot -> bid queue, head first
    sell_orders,       \* slot -> ask queue, head first
    locks,             \* slot -> the atomic_flag is set
    order_id_counter,  \* next order id
    pc,                \* thread -> position in add_order / match_order
    order,             \* thread -> local `order` of add_order (NoOrder once inserted)
    ticker,            \* thread -> argument `ticker` of add_order / match_order
    trades,            \* the "Trade Executed" lines printed so far, in order
    submitted,         \* history: the orders in the order their ids were allocated
    overlap,           \* history: some add_order call started while another was running
    pass,              \* history: thread -> queue lengths at the start of its matching
                       \* pass and the trades the pass has executed
    workload,          \* the argument tuples the callers draw from
    recording,         \* the histories trades and submitted are kept
    limit              \* the number of calls after which the callers stop

vars == <<buy_orders, sell_orders, locks, order_id_counter, pc, order, ticker,
          trades, submitted, overlap, pass, workload, recording, limit>>

(* --------------------------- PriorityQueue ----------------------------- *)
\* the comparison of PriorityQueue::insert: a has strictly higher priority than b
Better(is_max_heap, a, b) == IF is_max_heap THEN a > b ELSE a < b

\* the while loop of insert: the index of the node the new node is linked after
RECURSIVE Walk(_, _, _, _)
Walk(q, is_max_heap, ord, current) ==
    IF current + 1 <= Len(q) /\ Better(is_max_heap, q[current + 1].price, ord.price)
    THEN Walk(q, is_max_heap, ord, current + 1)
    ELSE current

InsertAtHead(q, is_max_heap, ord) == <<ord>> \o q

insert(q, is_max_heap, ord) ==
    IF q = <<>> \/ Better(is_max_heap, ord.price, Head(q).price)
    THEN <<ord>> \o q
    ELSE LET current == Walk(q, is_max_heap, ord, 1)
         IN  SubSeq(q, 1, current) \o <<ord>> \o SubSeq(q, current + 1, Len(q))

is_empty(q) == q = <<>>
peek(q) == Head(q)
pop(q) == [ord |-> Head(q), queue |-> Tail(q)]

Min(a, b) == IF a < b THEN a ELSE b

(* ------------------------------ OrderBook ------------------------------ *)
NoPass == [buys |-> 0, sells |-> 0, trades |-> 0]

InitBook ==
    /\ buy_orders = [s \in Slots |-> <<>>]
    /\ sell_orders = [s \in Slots |-> <<>>]
    /\ locks = [s \in Slots |-> FALSE]
    /\ order_id_counter = 0
    /\ pc = [t \in Threads |-> "idle"]
    /\ order = [t \in Threads |-> NoOrder]
    /\ ticker = [t \in Threads |-> 0]
    /\ trades = <<>>
    /\ submitted = <<>>
    /\ overlap = FALSE
    /\ pass = [t \in Threads |-> NoPass]

Init == InitBook /\ workload = RandomCalls /\ recording = TRUE /\ limit = MaxOrders

ScenarioInit == InitBook /\ workload = ScenarioCalls /\ recording = TRUE /\ limit = MaxOrders

SlotsInit == InitBook /\ workload = MultiTickerCalls /\ recording = TRUE /\ limit = MaxOrders

InvalidInit == InitBook /\ workload = InvalidCalls /\ recording = TRUE /\ limit = MaxOrders

\* callers that go on submitting: no history is kept, so that the state repeats
EndlessInit ==
    InitBook /\ workload = EndlessCalls /\ recording = FALSE /\ limit = MaxOrders

\* one call more than in Init, over the four calls of RaceCalls
RaceInit == InitBook /\ workload = RaceCalls /\ recording = TRUE /\ limit = MaxOrders + 1

\* test_and_set returns false, i.e. the spin loop is left
TestAndSetAlways(index) == TRUE
TestAndSet(index) == ~locks[index]

\* add_order, line 112: the new value of order_id_counter after fetch_add(1)
FetchAddLost(counter) == counter
FetchAdd(counter) == (counter + 1) % IdSpace

\* orders resting in a queue or about to be inserted
Outstanding ==
    LET RECURSIVE Total(_)
        Total(S) == IF S = {} THEN 0
                    ELSE LET s == CHOOSE x \in S : TRUE
                         IN  Len(buy_orders[s]) + Len(sell_orders[s]) + Total(S \ {s})
    IN  Total(Slots) + Cardinality({t \in Threads : order[t] # NoOrder})

\* the bound on the calls of one behaviour
MayBegin ==
    IF recording THEN Len(submitted) < limit ELSE Outstanding < limit

\* add_order, line 112-114: allocate the id, build the order
Begin(t) ==
    /\ pc[t] = "idle"
    /\ MayBegin
    /\ \E c \in workload :
          LET o == Order(c.order_type, c.ticker, c.quantity, c.price, order_id_counter)
          IN  /\ order' = [order EXCEPT ![t] = o]
              /\ ticker' = [ticker EXCEPT ![t] = c.ticker]
              /\ submitted' = IF recording THEN Append(submitted, o) ELSE submitted
    /\ order_id_counter' = FetchAdd(order_id_counter)
    /\ overlap' = (overlap \/ \E u \in Threads \ {t} : pc[u] # "idle")
    /\ pc' = [pc EXCEPT ![t] = "lock_insert"]
    /\ UNCHANGED <<buy_orders, sell_orders, locks, trades, pass, workload, recording, limit>>

\* add_order, line 117
LockInsert(t) ==
    /\ pc[t] = "lock_insert"
    /\ TestAndSet(Slot(ticker[t]))
    /\ locks' = [locks EXCEPT ![Slot(ticker[t])] = TRUE]
    /\ pc' = [pc EXCEPT ![t] = "insert"]
    /\ UNCHANGED <<buy_orders, sell_orders, order_id_counter, order, ticker,
                   trades, submitted, overlap, pass, workload, recording, limit>>

\* add_order, line 118-122
InsertIntoFirstSlot(t) ==
    /\ pc[t] = "insert"
    /\ IF order[t].order_type = "Buy"
       THEN /\ buy_orders' = [buy_orders EXCEPT ![5] = insert(@, TRUE, order[t])]
            /\ UNCHANGED sell_orders
       ELSE /\ sell_orders' = [sell_orders EXCEPT ![5] = insert(@, FALSE, order[t])]
            /\ UNCHANGED buy_orders
    /\ order' = [order EXCEPT ![t] = NoOrder]
    /\ pc' = [pc EXCEPT ![t] = "unlock_insert"]
    /\ UNCHANGED <<locks, order_id_counter, ticker, trades, submitted, overlap, pass,
                   workload, recording, limit>>
Insert(t) ==
    /\ pc[t] = "insert"
    /\ LET index == Slot(ticker[t])
       IN  IF order[t].order_type = "Buy"
           THEN /\ buy_orders' = [buy_orders EXCEPT ![index] = insert(@, TRUE, order[t])]
                /\ UNCHANGED sell_orders
           ELSE /\ sell_orders' = [sell_orders EXCEPT ![index] = insert(@, FALSE, order[t])]
                /\ UNCHANGED buy_orders
    /\ order' = [order EXCEPT ![t] = NoOrder]
    /\ pc' = [pc EXCEPT ![t] = "unlock_insert"]
    /\ UNCHANGED <<locks, order_id_counter, ticker, trades, submitted, overlap, pass,
                   workload, recording, limit>>

\* add_order, line 123
UnlockInsert(t) ==
    /\ pc[t] = "unlock_insert"
    /\ locks' = [locks EXCEPT ![Slot(ticker[t])] = FALSE]
    /\ pc' = [pc EXCEPT ![t] = "lock_match"]
    /\ UNCHANGED <<buy_orders, sell_orders, order_id_counter, order, ticker,
                   trades, submitted, overlap, pass, workload, recording, limit>>

\* match_order, line 137
LockMatch(t) ==
    /\ pc[t] = "lock_match"
    /\ TestAndSet(Slot(ticker[t]))
    /\ locks' = [locks EXCEPT ![Slot(ticker[t])] = TRUE]
    /\ pc' = [pc EXCEPT ![t] = "match"]
    /\ pass' = [pass EXCEPT ![t] = [buys |-> Len(buy_orders[Slot(ticker[t])]),
                                    sells |-> Len(sell_orders[Slot(ticker[t])]),
                                    trades |-> 0]]
    /\ UNCHANGED <<buy_orders, sell_orders, order_id_counter, order, ticker,
                   trades, submitted, overlap, workload, recording, limit>>

\* match_order, line 142: the two heads cross
CrossesStrict(best_buy, best_sell) == best_buy.price > best_sell.price
CrossesAlways(best_buy, best_sell) == TRUE
Crosses(best_buy, best_sell) == best_buy.price >= best_sell.price

\* match_order, line 150: the price printed for a trade
BuyPrice(executed_buy, executed_sell) == executed_buy.price
TradePrice(executed_buy, executed_sell) == executed_sell.price

\* match_order, line 146
TradeQuantityMax(executed_buy, executed_sell) ==
    IF executed_buy.quantity > executed_sell.quantity
    THEN executed_buy.quantity ELSE executed_sell.quantity
TradeQuantity(executed_buy, executed_sell) == Min(executed_buy.quantity, executed_sell.quantity)

\* match_order, line 152-157: an order with shares left goes back into its queue
ReinsertNever(q, is_max_heap, ord) == q
ReinsertAlways(q, is_max_heap, ord) == insert(q, is_max_heap, ord)
Reinsert(q, is_max_heap, ord) ==
    IF ord.quantity > 0 THEN insert(q, is_max_heap, ord) ELSE q

\* match_order, line 150: a printed trade, with the ids of the two matched orders
Trade(qty, tick, prc, buy_id, sell_id) ==
    [quantity |-> qty, ticker |-> tick, price |-> prc,
     buy_order_id |-> buy_id, sell_order_id |-> sell_id]

\* match_order, line 138 and 142: the loop goes on to execute a trade
CanTradeEitherSide(index) ==
    IF is_empty(buy_orders[index]) /\ is_empty(sell_orders[index])
    THEN FALSE
    ELSE IF is_empty(buy_orders[index]) \/ is_empty(sell_orders[index])
         THEN TRUE
         ELSE Crosses(peek(buy_orders[index]), peek(sell_orders[index]))
CanTrade(index) ==
    IF is_empty(buy_orders[index]) \/ is_empty(sell_orders[index])
    THEN FALSE
    ELSE Crosses(peek(buy_orders[index]), peek(sell_orders[index]))

\* match_order, line 138-157: one iteration of the loop that executes a trade.
\* pop throws "Queue is empty" on an empty queue (line 76); nothing catches it.
MatchTrade(t) ==
    /\ pc[t] = "match"
    /\ CanTrade(Slot(ticker[t]))
    /\ LET index == Slot(ticker[t])
       IN  IF is_empty(buy_orders[index]) \/ is_empty(sell_orders[index])
           THEN /\ pc' = [pc EXCEPT ![t] = "queue_is_empty"]
                /\ UNCHANGED <<buy_orders, sell_orders, trades, pass>>
           ELSE LET b == pop(buy_orders[index])
                    s == pop(sell_orders[index])
                    trade_quantity == TradeQuantity(b.ord, s.ord)
                    executed_buy == [b.ord EXCEPT !.quantity = @ - trade_quantity]
                    executed_sell == [s.ord EXCEPT !.quantity = @ - trade_quantity]
                    trade == Trade(trade_quantity, ticker[t], TradePrice(b.ord, s.ord),
                                   b.ord.order_id, s.ord.order_id)
                IN  /\ trades' = IF recording THEN Append(trades, trade) ELSE trades
                    /\ buy_orders' = [buy_orders EXCEPT ![index] =
                            Reinsert(b.queue, TRUE, executed_buy)]
                    /\ sell_orders' = [sell_orders EXCEPT ![index] =
                            Reinsert(s.queue, FALSE, executed_sell)]
                    /\ pass' = [pass EXCEPT ![t].trades = @ + 1]
                    /\ UNCHANGED pc
    /\ UNCHANGED <<locks, order_id_counter, order, ticker, submitted, overlap,
                   workload, recording, limit>>

\* match_order, line 138 / 158-160: the loop ends (a side is empty, or no cross)
MatchDone(t) ==
    /\ pc[t] = "match"
    /\ ~CanTrade(Slot(ticker[t]))
    /\ pc' = [pc EXCEPT ![t] = "unlock_match"]
    /\ UNCHANGED <<buy_orders, sell_orders, locks, order_id_counter, order, ticker,
                   trades, submitted, overlap, pass, workload, recording, limit>>

\* match_order, line 162, and the return of add_order
UnlockMatch(t) ==
    /\ pc[t] = "unlock_match"
    /\ locks' = [locks EXCEPT ![Slot(ticker[t])] = FALSE]
    /\ pc' = [pc EXCEPT ![t] = "idle"]
    /\ ticker' = [ticker EXCEPT ![t] = 0]
    /\ pass' = [pass EXCEPT ![t] = NoPass]
    /\ UNCHANGED <<buy_orders, sell_orders, order_id_counter, order,
                   trades, submitted, overlap, workload, recording, limit>>

Next ==
    \E t \in Threads :
        \/ Begin(t)
        \/ LockInsert(t)
        \/ Insert(t)
        \/ UnlockInsert(t)
        \/ LockMatch(t)
        \/ MatchTrade(t)
        \/ MatchDone(t)
        \/ UnlockMatch(t)

Spec == Init /\ [][Next]_vars

ScenarioSpec == ScenarioInit /\ [][Next]_vars

SlotsSpec == SlotsInit /\ [][Next]_vars

InvalidSpec == InvalidInit /\ [][Next]_vars

\* a thread that is inside add_order keeps running: each of its steps is
\* taken if it stays possible. A caller is free to make another call or not.
Fairness ==
    \A t \in Threads :
        /\ WF_vars(LockInsert(t))
        /\ WF_vars(Insert(t))
        /\ WF_vars(UnlockInsert(t))
        /\ WF_vars(LockMatch(t))
        /\ WF_vars(MatchTrade(t))
        /\ WF_vars(MatchDone(t))
        /\ WF_vars(UnlockMatch(t))

RaceSpec == RaceInit /\ [][Next]_vars

EndlessSpec == EndlessInit /\ [][Next]_vars /\ Fairness

TypeOK ==
    /\ order_id_counter \in 0..(IdSpace - 1)
    /\ pc \in [Threads -> {"idle", "lock_insert", "insert", "unlock_insert",
                           "lock_match", "match", "unlock_match", "queue_is_empty"}]
    /\ locks \in [Slots -> BOOLEAN]

(* ------------------------------ properties ----------------------------- *)
NoCallInProgress == \A t \in Threads : pc[t] = "idle"

InCS(t) == pc[t] \in {"insert", "unlock_insert", "match", "unlock_match"}

\* C1: no phantom crosses. Whenever no add_order call is in progress, in every
\* slot whose bid and ask queues are both non-empty the head bid price is
\* strictly below the head ask price.
C1_NoPhantomCross ==
    NoCallInProgress =>
        \A s \in Slots :
            (~is_empty(buy_orders[s]) /\ ~is_empty(sell_orders[s]))
                => peek(buy_orders[s]).price < peek(sell_orders[s]).price

\* a quiescent book with both sides resting, after at least one trade
C1_Witness ==
    /\ NoCallInProgress
    /\ trades # <<>>
    /\ \E s \in Slots : ~is_empty(buy_orders[s]) /\ ~is_empty(sell_orders[s])

\* thread t has inserted its order and its matching pass has not ended yet
InsertedNotMatched(t) ==
    pc[t] \in {"unlock_insert", "lock_match", "match", "unlock_match"}

\* C2: insertion and matching form one atomic unit per ticker. While a call
\* is between the insertion of its order and the end of its own matching
\* pass, no other thread is inside a guarded section of the same slot.
C2_InsertMatchAtomic ==
    \A t, u \in Threads :
        (t # u /\ InsertedNotMatched(t) /\ InCS(u))
            => Slot(ticker[t]) # Slot(ticker[u])

\* C3: mutual exclusion per slot. No two threads are at the same time inside
\* a section guarded by the same slot's flag (the insertion of add_order, the
\* loop of match_order), and the flag of a slot is set exactly while some
\* thread is inside such a section.
C3_MutualExclusion ==
    /\ \A t, u \in Threads :
          (t # u /\ InCS(t) /\ InCS(u)) => Slot(ticker[t]) # Slot(ticker[u])
    /\ \A s \in Slots :
          locks[s] <=> \E t \in Threads : InCS(t) /\ Slot(ticker[t]) = s

\* a matching pass that has executed a trade and still holds the flag, while
\* another thread waits to insert into the same slot
C3_Witness ==
    \E t, u \in Threads :
        /\ t # u
        /\ pc[t] = "match" /\ trades # <<>>
        /\ pc[u] = "lock_insert"
        /\ Slot(ticker[t]) = Slot(ticker[u])

SortedByPrice(q, is_max_heap) ==
    \A i \in 1..Len(q) : \A j \in i..Len(q) : ~Better(is_max_heap, q[j].price, q[i].price)

\* C4: price priority. Every bid queue is sorted by price from the highest at
\* the head to the lowest, every ask queue from the lowest at the head to the
\* highest, so peek returns a best-priced order of the queue.
C4_PricePriority ==
    \A s \in Slots :
        /\ SortedByPrice(buy_orders[s], TRUE)
        /\ SortedByPrice(sell_orders[s], FALSE)

\* a bid queue holding two different prices after a trade was executed
C4_Witness ==
    \E s \in Slots :
        /\ Len(buy_orders[s]) >= 2
        /\ buy_orders[s][1].price # buy_orders[s][Len(buy_orders[s])].price
        /\ trades # <<>>

\* C5: time priority among equal prices. For submissions made one after the
\* other, the head of every queue has the lowest order_id of all orders in
\* the queue that share its price.
HeadIsEarliest(q) ==
    \A i \in 2..Len(q) :
        q[i].price = q[1].price => q[1].order_id < q[i].order_id

C5_TimePriority ==
    ~overlap => \A s \in Slots :
                    HeadIsEarliest(buy_orders[s]) /\ HeadIsEarliest(sell_orders[s])

\* the head order of q was partially filled and is at position k of qn
ReinsertedAt(q, qn, k) ==
    /\ q # <<>>
    /\ k \in 1..Len(qn)
    /\ qn[k].order_id = q[1].order_id
    /\ qn[k].quantity < q[1].quantity

KeepsPriority(q, qn) ==
    \A k \in 1..Len(qn) :
        ReinsertedAt(q, qn, k) =>
            \A j \in 1..Len(qn) :
                (qn[j].price = qn[k].price /\ qn[j].order_id > qn[k].order_id) => k < j

\* C6: a partially filled order keeps its time priority. For submissions made
\* one after the other, every matching step that re-inserts an order with
\* shares left places it ahead of every order of its side that has the same
\* price and a higher order_id.
C6_PartialFillKeepsPriority ==
    [][~overlap =>
          \A s \in Slots :
              /\ KeepsPriority(buy_orders[s], buy_orders'[s])
              /\ KeepsPriority(sell_orders[s], sell_orders'[s])]_vars

RECURSIVE SumQuantity(_)
SumQuantity(q) == IF q = <<>> THEN 0 ELSE Head(q).quantity + SumQuantity(Tail(q))

InSlot(q, s) == SelectSeq(q, LAMBDA r : Slot(r.ticker) = s)

\* ids allocated by calls that have not inserted their order yet
InFlight == {order[t].order_id : t \in Threads} \ {-1}

InsertedOrders == SelectSeq(submitted, LAMBDA o : o.order_id \notin InFlight)

Resting(s) == SumQuantity(buy_orders[s]) + SumQuantity(sell_orders[s])
Traded(s) == SumQuantity(InSlot(trades, s))
InsertedQuantity(s) == SumQuantity(InSlot(InsertedOrders, s))

\* C7: quantity conservation as stated. In every slot the remaining quantity
\* of the resting orders plus the quantity of the trades emitted equals the
\* quantity of the orders put into the slot's queues.
C7_Conservation ==
    \A s \in Slots : Resting(s) + Traded(s) = InsertedQuantity(s)

\* C7 amended: a trade takes its quantity from a buy order and from a sell
\* order, so the resting quantity plus twice the traded quantity equals the
\* quantity of the orders put into the slot's queues.
C7_ConservationBothSides ==
    \A s \in Slots : Resting(s) + 2 * Traded(s) = InsertedQuantity(s)

\* an order rests with part of its quantity after a trade took the rest
C7_Witness ==
    /\ trades # <<>>
    /\ \E s \in Slots : \E i \in 1..Len(buy_orders[s]) :
          buy_orders[s][i].quantity < submitted[buy_orders[s][i].order_id + 1].quantity

SubmittedPrice(id) == submitted[id + 1].price

\* C8: the trade price is the passive order's price as stated. Every trade
\* is priced at the submitted price of the matched order with the lower id.
C8_PassivePrice ==
    \A i \in 1..Len(trades) :
        trades[i].price =
            SubmittedPrice(Min(trades[i].buy_order_id, trades[i].sell_order_id))

\* C8 amended: every trade is priced at the submitted price of the matched
\* sell order, whichever of the two orders was submitted first.
C8_SellPrice ==
    \A i \in 1..Len(trades) :
        trades[i].price = SubmittedPrice(trades[i].sell_order_id)

\* a trade of a resting buy order against a later sell order with a lower price
C8_Witness ==
    \E i \in 1..Len(trades) :
        /\ trades[i].buy_order_id < trades[i].sell_order_id
        /\ SubmittedPrice(trades[i].sell_order_id) < SubmittedPrice(trades[i].buy_order_id)

\* the calls in log were made one after the other on an empty book, got the
\* ids 0, 1, ... in this order, and all have returned
RanInSequence(log) ==
    /\ ~overlap
    /\ NoCallInProgress
    /\ Len(submitted) = Len(log)
    /\ \A i \in 1..Len(log) :
          submitted[i] = Order(log[i].order_type, log[i].ticker, log[i].quantity,
                               log[i].price, i - 1)

\* C9: full fill. On an empty book, a buy of q at p followed by a sell of q at
\* p2 <= p on the same ticker emits exactly one trade, of quantity q at price
\* p2 and with that ticker, and leaves both queues of the ticker empty.
C9_FullFill ==
    \A b, a \in workload :
        (/\ b.order_type = "Buy" /\ a.order_type = "Sell"
         /\ b.ticker = a.ticker /\ b.quantity = a.quantity /\ a.price <= b.price
         /\ RanInSequence(<<b, a>>))
        => /\ trades = <<Trade(b.quantity, b.ticker, a.price, 0, 1)>>
           /\ is_empty(buy_orders[Slot(b.ticker)])
           /\ is_empty(sell_orders[Slot(b.ticker)])

\* Buy 10@100 then Sell 10@90 on ticker 5 have both returned
C9_Witness ==
    RanInSequence(<<Call("Buy", 5, 10, 100), Call("Sell", 5, 10, 90)>>)

SweepCalls == <<Call("Buy", 5, 5, 50), Call("Buy", 5, 10, 60), Call("Sell", 5, 12, 55)>>

\* C10: sweep as stated. Buy 5@50, Buy 10@60, Sell 12@55 emit two trades, 10
\* at 55 against the 60-priced buy and 2 at 55 against the 50-priced buy, and
\* leave the 50-priced buy with quantity 3 and no resting sell.
C10_Sweep ==
    RanInSequence(SweepCalls)
        => /\ trades = <<Trade(10, 5, 55, 1, 2), Trade(2, 5, 55, 0, 2)>>
           /\ buy_orders[5] = <<Order("Buy", 5, 3, 50, 0)>>
           /\ sell_orders[5] = <<>>

\* C10 amended: the three submissions emit one trade, 10 at 55 against the
\* 60-priced buy; the 50-priced buy does not cross the 55-priced sell, so the
\* book is left with the buy of 5 at 50 and the sell's remaining 2 at 55.
C10_SweepOneTrade ==
    RanInSequence(SweepCalls)
        => /\ trades = <<Trade(10, 5, 55, 1, 2)>>
           /\ buy_orders[5] = <<Order("Buy", 5, 5, 50, 0)>>
           /\ sell_orders[5] = <<Order("Sell", 5, 2, 55, 2)>>

\* the three submissions of the sweep have returned
C10_Witness == RanInSequence(SweepCalls)

AllQueues == {buy_orders[s] : s \in Slots} \cup {sell_orders[s] : s \in Slots}

ValidOrder(o) == o.quantity > 0 /\ o.price > 0

SubmittedOrder(id) == submitted[id + 1]

\* C11: invalid orders are rejected without effect. An order whose quantity
\* or price is not positive never gets into a queue and never takes part in
\* a trade.
C11_InvalidRejected ==
    /\ \A q \in AllQueues : \A i \in 1..Len(q) :
          ValidOrder(SubmittedOrder(q[i].order_id))
    /\ \A i \in 1..Len(trades) :
          /\ ValidOrder(SubmittedOrder(trades[i].buy_order_id))
          /\ ValidOrder(SubmittedOrder(trades[i].sell_order_id))

\* C12: each ticker has an independent book. The orders resting in the two
\* queues of a slot all have the same ticker id, and every trade carries the
\* ticker id of both orders it matched.
C12_IndependentBooks ==
    /\ \A s \in Slots :
          \A i \in 1..Len(buy_orders[s] \o sell_orders[s]) :
              \A j \in 1..Len(buy_orders[s] \o sell_orders[s]) :
                  (buy_orders[s] \o sell_orders[s])[i].ticker
                      = (buy_orders[s] \o sell_orders[s])[j].ticker
    /\ \A i \in 1..Len(trades) :
          /\ SubmittedOrder(trades[i].buy_order_id).ticker = trades[i].ticker
          /\ SubmittedOrder(trades[i].sell_order_id).ticker = trades[i].ticker

\* C13: unique order ids. The ids obtained by the calls made so far are
\* pairwise different and are exactly 0, 1, ..., n-1 for n calls.
C13_UniqueIds ==
    /\ \A i, j \in 1..Len(submitted) :
          i # j => submitted[i].order_id # submitted[j].order_id
    /\ {submitted[i].order_id : i \in 1..Len(submitted)} = 0..(Len(submitted) - 1)

\* two calls hold their ids at the same time, before either has inserted
C13_Witness ==
    \E t, u \in Threads :
        /\ t # u
        /\ pc[t] = "lock_insert" /\ pc[u] = "lock_insert"
        /\ order[t].order_id # order[u].order_id

SlotChanged(s) ==
    \/ buy_orders'[s] # buy_orders[s]
    \/ sell_orders'[s] # sell_orders[s]
    \/ locks'[s] # locks[s]
    \/ InSlot(trades', s) # InSlot(trades, s)

InPass(t) == pc[t] \in {"match", "unlock_match"}

\* C15: matching-loop bound as stated. A matching pass executes at most
\* min(length of the bid queue, length of the ask queue) trades, the lengths
\* taken when the pass starts.
C15_LoopBound ==
    \A t \in Threads :
        InPass(t) => pass[t].trades <= Min(pass[t].buys, pass[t].sells)

\* C15 amended: a trade removes at least one order and needs two, so a pass
\* executes at most (bid length + ask length - 1) trades, and none when a
\* side is empty at its start.
C15_LoopBoundTotal ==
    \A t \in Threads :
        InPass(t) =>
            pass[t].trades <= (IF pass[t].buys = 0 \/ pass[t].sells = 0
                               THEN 0 ELSE pass[t].buys + pass[t].sells - 1)

\* a pass that started with three orders and has executed two trades
C15_Witness ==
    \E t \in Threads :
        InPass(t) /\ pass[t].buys + pass[t].sells = 3 /\ pass[t].trades = 2

\* C16: no starvation. Every add_order call that has started returns, also
\* when other threads go on submitting on the same ticker.
C16_NoStarvation ==
    \A t \in Threads : (pc[t] # "idle") ~> (pc[t] = "idle")

\* C17: the empty-queue error never surfaces. No thread ever reaches the
\* throw of pop, not even while other calls insert and match concurrently.
C17_NoEmptyQueueError ==
    \A t \in Threads : pc[t] # "queue_is_empty"

\* a matching pass has executed a trade and finds a side empty
C17_Witness ==
    \E t \in Threads :
        /\ pc[t] = "match" /\ pass[t].trades > 0
        /\ is_empty(buy_orders[Slot(ticker[t])]) \/ is_empty(sell_orders[Slot(ticker[t])])
        /\ \E u \in Threads \ {t} : pc[u] = "lock_insert"

\* C18: id order is insertion order within a ticker. While a call holds an
\* order it has not inserted yet, no order of the same slot with a higher id
\* has been inserted.
C18_IdOrderIsInsertionOrder ==
    \A t \in Threads :
        order[t] # NoOrder =>
            \A i \in 1..Len(submitted) :
                (/\ submitted[i].order_id > order[t].order_id
                 /\ Slot(submitted[i].ticker) = Slot(order[t].ticker))
                => submitted[i].order_id \in InFlight

InsertedOnSide(s, side) ==
    SumQuantity(SelectSeq(InsertedOrders,
                          LAMBDA o : Slot(o.ticker) = s /\ o.order_type = side))

\* C20: per-side conservation and fill bounds. In every slot, for the bid
\* side and for the ask side, the resting quantity of the side plus the
\* quantity of the slot's trades equals the quantity of the orders put into
\* that side's queue; and every resting order has a remaining quantity that
\* is positive and at most the quantity it was submitted with.
C20_PerSideConservation ==
    /\ \A s \in Slots :
          /\ SumQuantity(buy_orders[s]) + Traded(s) = InsertedOnSide(s, "Buy")
          /\ SumQuantity(sell_orders[s]) + Traded(s) = InsertedOnSide(s, "Sell")
    /\ \A q \in AllQueues : \A i \in 1..Len(q) :
          /\ q[i].quantity > 0
          /\ q[i].quantity <= SubmittedOrder(q[i].order_id).quantity

\* a sell order rests with part of its quantity after a trade took the rest
C20_Witness ==
    /\ trades # <<>>
    /\ \E s \in Slots : \E i \in 1..Len(sell_orders[s]) :
          sell_orders[s][i].quantity < SubmittedOrder(sell_orders[s][i].order_id).quantity

(* ------------------- add_order calls run one at a time ------------------ *)
\* match_order run to its end on the two queues of one slot (line 138-161)
RECURSIVE SerialMatch(_, _)
SerialMatch(book, tick) ==
    IF is_empty(book.buy) \/ is_empty(book.sell)
    THEN book
    ELSE IF ~Crosses(peek(book.buy), peek(book.sell))
    THEN book
    ELSE LET b == pop(book.buy)
             s == pop(book.sell)
             trade_quantity == TradeQuantity(b.ord, s.ord)
             executed_buy == [b.ord EXCEPT !.quantity = @ - trade_quantity]
             executed_sell == [s.ord EXCEPT !.quantity = @ - trade_quantity]
         IN  SerialMatch([buy |-> Reinsert(b.queue, TRUE, executed_buy),
                          sell |-> Reinsert(s.queue, FALSE, executed_sell),
                          trades |-> Append(book.trades,
                                Trade(trade_quantity, tick, TradePrice(b.ord, s.ord),
                                      b.ord.order_id, s.ord.order_id))],
                         tick)

\* add_order run alone: the insertion, then the matching pass (line 118-125)
SerialAddOrder(book, o) ==
    SerialMatch(IF o.order_type = "Buy"
                THEN [book EXCEPT !.buy = insert(@, TRUE, o)]
                ELSE [book EXCEPT !.sell = insert(@, FALSE, o)],
                o.ticker)

\* the calls of orders run one at a time, in the order of the sequence
RECURSIVE SerialRun(_)
SerialRun(orders) ==
    IF orders = <<>>
    THEN [buy |-> <<>>, sell |-> <<>>, trades |-> <<>>]
    ELSE SerialAddOrder(SerialRun(SubSeq(orders, 1, Len(orders) - 1)),
                        orders[Len(orders)])

Permutations(n) ==
    {p \in [1..n -> 1..n] : \A i, j \in 1..n : i # j => p[i] # p[j]}

Range(q) == {q[i] : i \in 1..Len(q)}

\* the result of the serial run r is the state of slot s
SameOutcome(r, s) ==
    /\ r.buy = buy_orders[s]
    /\ r.sell = sell_orders[s]
    /\ Len(r.trades) = Len(InSlot(trades, s))
    /\ Range(r.trades) = Range(InSlot(trades, s))

\* C19: same-ticker concurrency is equivalent to some serial order. Once all
\* calls have returned, the trades emitted for a slot (as a multiset) and
\* its two queues are those of running the same calls one at a time, each
\* insertion followed at once by its matching pass, in some order.
C19_Serializable ==
    NoCallInProgress =>
        \A s \in Slots :
            LET calls == InSlot(submitted, s)
            IN  \E p \in Permutations(Len(calls)) :
                    SameOutcome(SerialRun([i \in 1..Len(calls) |-> calls[p[i]]]), s)

====
